---- MODULE Spec2Model ----
(***************************************************************************)
(* Eizen: an HNSW index over a key-value storage backend.                  *)
(*                                                                         *)
(* The storage backend is the Redis one (RedisMemory, test/eizen.test.ts), *)
(* the vector math and the node heap are src/utils/index.ts.  The index    *)
(* algorithms (insert, knn_search, search_layer, select_neighbors) live in *)
(* src/hnsw.ts; they are modelled from sections 4.5 - 4.8 of the spec.     *)
(*                                                                         *)
(* Distances are exact fixed-point numbers: every vector of VecList has    *)
(* the same integer Euclidean norm, so cosine_distance(a, b) is a multiple *)
(* of 1 / (norm(a) * norm(b)) and is kept as that integer multiple.        *)
(***************************************************************************)
EXTENDS Integers, Sequences, FiniteSets, TLC

VARIABLES
    db,       \* the storage: ep, layers, points, point, neighbor, metadata
    tie,      \* the total order the heaps use among equal distances
    log,      \* log[k]: arguments and returned id of the k-th insert
    failed,   \* TRUE iff some operation threw
    res,      \* outcome of the last knn_search since the last insert
    calls     \* the storage calls in flight when operations interleave

vars == <<db, tie, log, failed, res, calls>>

----------------------------------------------------------------------------
(* Bounds of the model *)

MaxInserts == 4
MaxFlat == 6
MaxLevel == 1
MaxSearched == 3
MaxK == 3
MaxMeta == 2
MaxCalls == 3
MaxAbandoned == 1
MaxQuiesced == 1
MaxStore == 2
MaxBatch == 2

(* Index configuration (constructor arguments of HNSW / EizenDbVector) *)
M == 2
ef_construction == 3
ef_search == 2

M_max == M
M_max0 == 2 * M

(* The vectors inserts and queries draw from: integer points of norm 3 *)
VecList ==
    << <<3, 0, 0>>, <<1, 2, 2>>, <<1, -2, 2>>, <<1, 2, -2>>,
       <<1, -2, -2>>, <<2, 2, 1>> >>

Vecs == {VecList[i] : i \in 1..Len(VecList)}

Metas == {"a", "b"}

----------------------------------------------------------------------------
(* Optional values: null is the empty tuple, a present value v is <<v>> *)

None == <<>>
Some(v) == <<v>>

EmptyFn == [x \in {} |-> 0]

SetToSortedSeq(S) ==
    LET RECURSIVE Build(_)
        Build(T) ==
            IF T = {} THEN <<>>
            ELSE LET m == CHOOSE x \in T : \A y \in T : x <= y
                 IN <<m>> \o Build(T \ {m})
    IN Build(S)

----------------------------------------------------------------------------
(* Vector math, src/utils/index.ts *)

(* reduce without its initial value: the first coordinate seeds the sum *)
dot_product_noinit(a, b) ==
    LET RECURSIVE Sum(_)
        Sum(i) == IF i = 1 THEN a[1] ELSE Sum(i - 1) + a[i] * b[i]
    IN Sum(Len(a))

dot_product(a, b) ==
    LET RECURSIVE Sum(_)
        Sum(i) == IF i = 0 THEN 0 ELSE Sum(i - 1) + a[i] * b[i]
    IN Sum(Len(a))

(* Math.sqrt on the perfect squares the model's vectors produce *)
Sqrt(n) == CHOOSE r \in 0..n : r * r <= n /\ n < (r + 1) * (r + 1)

norm(a) == Sqrt(dot_product(a, a))

(* One unit of distance is 1 / Unit: the squared norm of the vectors *)
Unit == norm(VecList[1]) * norm(VecList[1])

cosine_distance(a, b) ==
    Unit - (Unit * dot_product(a, b)) \div (norm(a) * norm(b))

(* The same functions on operands of any lengths.  A JavaScript number is *)
(* a finite value or NaN; reading b[idx] past the end of b gives undefined *)
(* and val * undefined is NaN, which every later sum keeps.                *)
Number(n) == [kind |-> "number", v |-> n]

NaN == [kind |-> "NaN"]

dot_product_js(a, b) ==
    IF Len(b) < Len(a) THEN NaN ELSE Number(dot_product(a, b))

cosine_distance_js(a, b) ==
    IF dot_product_js(a, b).kind = "NaN" THEN NaN
    ELSE Number(Unit - (Unit * dot_product_js(a, b).v) \div (norm(a) * norm(b)))

----------------------------------------------------------------------------
(* Nodes <<distance, id>> and the two priority-queue views over them *)

(* comparator on the second element of the tuple, the id *)
compareNode_id(a, b) == a[2] - b[2]

(* comparator with its operands swapped *)
compareNode_swapped(a, b) == b[1] - a[1]

compareNode(a, b) == a[1] - b[1]

NodeLess(a, b, t) ==
    \/ compareNode(a, b) < 0
    \/ /\ compareNode(a, b) = 0
       /\ IF t = "lo" THEN a[2] < b[2] ELSE a[2] > b[2]

MinNode(S, t) == CHOOSE a \in S : \A b \in S \ {a} : NodeLess(a, b, t)
MaxNode(S, t) == CHOOSE a \in S : \A b \in S \ {a} : NodeLess(b, a, t)

(* The nodes of S in ascending order *)
SortNodes(S, t) ==
    LET RECURSIVE Build(_)
        Build(T) ==
            IF T = {} THEN <<>>
            ELSE LET m == MinNode(T, t) IN <<m>> \o Build(T \ {m})
    IN Build(S)

(* NodeHeap: the binary heap of heap-js over compareNode, kept in an     *)
(* array whose first element is the top; the children of position i are *)
(* the positions 2i and 2i + 1                                           *)
Swap(h, i, j) == [h EXCEPT ![i] = h[j], ![j] = h[i]]

(* the node at position i rises while it compares below its parent *)
RECURSIVE sortNodeUp(_, _)
sortNodeUp(h, i) ==
    IF i > 1 /\ compareNode(h[i], h[i \div 2]) < 0
    THEN sortNodeUp(Swap(h, i, i \div 2), i \div 2)
    ELSE h

BestChild(h, i) ==
    IF 2 * i + 1 <= Len(h) /\ compareNode(h[2 * i + 1], h[2 * i]) < 0
    THEN 2 * i + 1
    ELSE 2 * i

(* the node at position i sinks while its best child compares below it *)
RECURSIVE sortNodeDown(_, _)
sortNodeDown(h, i) ==
    IF 2 * i <= Len(h) /\ compareNode(h[i], h[BestChild(h, i)]) > 0
    THEN sortNodeDown(Swap(h, i, BestChild(h, i)), BestChild(h, i))
    ELSE h

heap_push(h, node) == sortNodeUp(Append(h, node), Len(h) + 1)

(* the array after pop(): the last node replaces the top and sinks *)
heap_pop(h) ==
    IF Len(h) <= 1 THEN <<>>
    ELSE sortNodeDown(<<h[Len(h)]>> \o SubSeq(h, 2, Len(h) - 1), 1)

(* new NodeHeap() followed by one push per node of elems *)
RECURSIVE NodeHeap(_)
NodeHeap(elems) ==
    IF elems = <<>> THEN <<>>
    ELSE heap_push(NodeHeap(SubSeq(elems, 1, Len(elems) - 1)), elems[Len(elems)])

(* the nodes successive pops return until the heap is empty *)
RECURSIVE Pops(_)
Pops(h) == IF h = <<>> THEN <<>> ELSE <<h[1]>> \o Pops(heap_pop(h))

Max(a, b) == IF a < b THEN b ELSE a

Take(s, n) == SubSeq(s, 1, IF n < Len(s) THEN n ELSE Len(s))

----------------------------------------------------------------------------
(* The storage backend, RedisMemory.  A key that was never set reads null. *)

(* Protobuf records of the codec: a point and a layer node *)
encodePoint(q, idx) == [v |-> q, idx |-> idx]
decodePoint(data) == data

encodeLayerNode(idx, layer, node) ==
    [idx |-> idx, level |-> layer, neighbors |-> node]
decodeLayerNode(data) == data

(* JSON.stringify / safeParse of a metadata value *)
stringify(m) == <<"json", m>>
safeParse(data) == IF data = None THEN None ELSE Some(data[1][2])

EmptyDB ==
    [ep |-> None, layers |-> None, points |-> None,
     point |-> EmptyFn, neighbor |-> EmptyFn, metadata |-> EmptyFn]

(* a falsy test of the parsed value: entry point 0 reads as null *)
get_ep_falsy(d) == IF d.ep = None \/ d.ep[1] = 0 THEN None ELSE d.ep

get_ep(d) == d.ep

(* the entry point is not written *)
set_ep_skip(d, ep) == d

set_ep(d, ep) == [d EXCEPT !.ep = Some(ep)]

get_point_throws(d, idx) == idx \notin DOMAIN d.point

get_point(d, idx) == decodePoint(d.point[idx]).v

get_points_throws(d, idxs) ==
    \E i \in 1..Len(idxs) : idxs[i] \notin DOMAIN d.point

get_points(d, idxs) ==
    [i \in 1..Len(idxs) |-> decodePoint(d.point[idxs[i]]).v]

get_num_layers(d) == IF d.layers = None THEN 0 ELSE d.layers[1]

get_datasize(d) == IF d.points = None THEN 0 ELSE d.points[1]

(* the counter is written back without the increment *)
new_point_noinc(d, q) ==
    LET idx == get_datasize(d)
        d1 == [d EXCEPT !.point = (idx :> encodePoint(q, idx)) @@ @]
    IN [db |-> [d1 EXCEPT !.points = Some(idx)], idx |-> idx]

(* the point is stored under the incremented counter *)
new_point_nextkey(d, q) ==
    LET idx == get_datasize(d)
        d1 == [d EXCEPT !.point = ((idx + 1) :> encodePoint(q, idx)) @@ @]
    IN [db |-> [d1 EXCEPT !.points = Some(idx + 1)], idx |-> idx]

(* new_point: [db |-> the storage afterwards, idx |-> the id returned] *)
new_point(d, q) ==
    LET idx == get_datasize(d)
        d1 == [d EXCEPT !.point = (idx :> encodePoint(q, idx)) @@ @]
    IN [db |-> [d1 EXCEPT !.points = Some(idx + 1)], idx |-> idx]

(* the point is written under the key of the next id *)
new_point_set_point_nextkey(d, q, idx) ==
    [d EXCEPT !.point = ((idx + 1) :> encodePoint(q, idx)) @@ @]

(* the two writes of new_point, in the order it issues them *)
new_point_set_point(d, q, idx) ==
    [d EXCEPT !.point = (idx :> encodePoint(q, idx)) @@ @]

(* the counter is written back as read *)
new_point_set_points_asread(d, idx) == [d EXCEPT !.points = Some(idx)]

new_point_set_points(d, idx) == [d EXCEPT !.points = Some(idx + 1)]

get_neighbor_throws(d, layer, idx) == <<layer, idx>> \notin DOMAIN d.neighbor

get_neighbor(d, layer, idx) ==
    decodeLayerNode(d.neighbor[<<layer, idx>>]).neighbors

(* MGET takes at least one key: the server rejects a command without any *)
mget_throws(keys) == keys = <<>>

get_neighbors_throws(d, layer, idxs) ==
    \/ mget_throws(idxs)
    \/ \E i \in 1..Len(idxs) : <<layer, idxs[i]>> \notin DOMAIN d.neighbor

(* the values read are matched to the requested ids in reverse order *)
get_neighbors_reversed(d, layer, idxs) ==
    [i \in {idxs[k] : k \in 1..Len(idxs)} |->
        get_neighbor(d, layer,
                     idxs[Len(idxs) + 1 - (CHOOSE k \in 1..Len(idxs) : idxs[k] = i)])]

(* the Graph returned: one entry per requested id *)
get_neighbors(d, layer, idxs) ==
    [i \in {idxs[k] : k \in 1..Len(idxs)} |-> get_neighbor(d, layer, i)]

(* the record replaces the whole key space of the layer records *)
upsert_neighbor_only(d, layer, idx, node) ==
    [d EXCEPT !.neighbor = (<<layer, idx>> :> encodeLayerNode(idx, layer, node))]

(* the adjacency written is united with the one stored under the key *)
upsert_neighbor_merge(d, layer, idx, node) ==
    [d EXCEPT !.neighbor =
        (<<layer, idx>> :>
            encodeLayerNode(idx, layer,
                            IF <<layer, idx>> \in DOMAIN d.neighbor
                            THEN node @@ d.neighbor[<<layer, idx>>].neighbors
                            ELSE node)) @@ @]

upsert_neighbor(d, layer, idx, node) ==
    [d EXCEPT !.neighbor =
        (<<layer, idx>> :> encodeLayerNode(idx, layer, node)) @@ @]

(* the entry of the largest id is left out of both passes *)
upsert_neighbors_skip(d, layer, nodes) ==
    LET kept == {i \in DOMAIN nodes : \E j \in DOMAIN nodes : j > i}
        batch == [k \in {<<layer, i>> : i \in kept} |->
                      encodeLayerNode(k[2], layer, nodes[k[2]])]
    IN [d EXCEPT !.neighbor = batch @@ @]

(* the new neighbors are merged into the stored adjacency *)
upsert_neighbors_merge(d, layer, nodes) ==
    LET batch == [k \in {<<layer, i>> : i \in DOMAIN nodes} |->
                      encodeLayerNode(
                          k[2], layer,
                          IF k \in DOMAIN d.neighbor
                          THEN nodes[k[2]] @@ d.neighbor[k].neighbors
                          ELSE nodes[k[2]])]
    IN [d EXCEPT !.neighbor = batch @@ @]

(* nothing is written *)
upsert_neighbors_none(d, layer, nodes) == d

(* upsert_neighbors: one mset of every entry, then every entry once more *)
upsert_neighbors(d, layer, nodes) ==
    LET batch == [k \in {<<layer, i>> : i \in DOMAIN nodes} |->
                      encodeLayerNode(k[2], layer, nodes[k[2]])]
        d1 == [d EXCEPT !.neighbor = batch @@ @]
        RECURSIVE Each(_, _)
        Each(dd, is) ==
            IF is = <<>> THEN dd
            ELSE Each(upsert_neighbor(dd, layer, Head(is), nodes[Head(is)]),
                      Tail(is))
    IN Each(d1, SetToSortedSeq(DOMAIN nodes))

(* MSET takes at least one key-value pair: an empty Graph is rejected *)
mset_throws(nodes) == DOMAIN nodes = {}

(* the first statement of upsert_neighbors alone: the mset of every entry *)
upsert_neighbors_mset(d, layer, nodes) ==
    [d EXCEPT !.neighbor =
        [k \in {<<layer, i>> : i \in DOMAIN nodes} |->
            encodeLayerNode(k[2], layer, nodes[k[2]])] @@ @]

(* the layer counter is not written *)
new_neighbor_nobump(d, idx) == upsert_neighbor(d, get_num_layers(d), idx, EmptyFn)

(* the record is written at the incremented layer *)
new_neighbor_above(d, idx) ==
    LET l == get_num_layers(d)
        d1 == upsert_neighbor(d, l + 1, idx, EmptyFn)
    IN [d1 EXCEPT !.layers = Some(l + 1)]

(* the first write of new_neighbor: the empty record at layer num_layers *)
new_neighbor_upsert(d, idx) == upsert_neighbor(d, get_num_layers(d), idx, EmptyFn)

(* the layer counter is raised by two *)
new_neighbor_twice(d, idx) ==
    LET l == get_num_layers(d)
        d1 == upsert_neighbor(d, l, idx, EmptyFn)
    IN [d1 EXCEPT !.layers = Some(l + 2)]

new_neighbor(d, idx) ==
    LET l == get_num_layers(d)
        d1 == upsert_neighbor(d, l, idx, EmptyFn)
    IN [d1 EXCEPT !.layers = Some(l + 1)]

(* the layer counter is written back as read *)
new_neighbor_set_layers_asread(d, l) == [d EXCEPT !.layers = Some(l)]

(* the last write of new_neighbor, l being the value it read *)
new_neighbor_set_layers(d, l) == [d EXCEPT !.layers = Some(l + 1)]

get_metadata(d, idx) ==
    safeParse(IF idx \in DOMAIN d.metadata THEN Some(d.metadata[idx]) ELSE None)

(* every position reads the first key *)
get_metadatas_first(d, idxs) ==
    [i \in 1..Len(idxs) |-> get_metadata(d, idxs[1])]

get_metadatas(d, idxs) == [i \in 1..Len(idxs) |-> get_metadata(d, idxs[i])]

(* a read that stores the value parsed for every key it was asked *)
get_metadatas_db_caching(d, idxs) ==
    [d EXCEPT !.metadata =
        [i \in {idxs[k] : k \in 1..Len(idxs)} |-> get_metadata(d, i)] @@ @]

(* the storage after get_metadatas: one mget, no write *)
get_metadatas_db(d, idxs) == d

set_metadata(d, idx, data) ==
    [d EXCEPT !.metadata = (idx :> stringify(data)) @@ @]

----------------------------------------------------------------------------
(* EizenCompatSDK, src/index.ts: sent is the sequence of write            *)
(* interactions handed to base.dryWriteInteraction so far.  Each          *)
(* operation returns [sent |-> the sequence afterwards, threw |-> it      *)
(* threw].                                                                *)

(* the length check is missing *)
setMany_unchecked(sent, keys, values) ==
    [sent |-> Append(sent, [function |-> "upsertVectorMulti",
                            value |-> [keys |-> keys, values |-> values]]),
     threw |-> FALSE]

setMany(sent, keys, values) ==
    IF Len(keys) # Len(values)
    THEN [sent |-> sent, threw |-> TRUE]
    ELSE [sent |-> Append(sent, [function |-> "upsertVectorMulti",
                                 value |-> [keys |-> keys, values |-> values]]),
          threw |-> FALSE]

set(sent, key, value) == setMany(sent, <<key>>, <<value>>)

----------------------------------------------------------------------------
(* search_layer (spec 4.5): best-first traversal of one layer.  The state  *)
(* of the traversal is [visited, C (candidates), W (results), err, hops];  *)
(* err: a storage read threw; hops: the candidates expanded.               *)

(* push into the results, evicting the largest beyond ef *)
PushResult(W, node, ef, t) ==
    IF Cardinality(W \cup {node}) > ef
    THEN (W \cup {node}) \ {MaxNode(W \cup {node}, t)}
    ELSE W \cup {node}

(* step 4 for one unvisited neighbor e at distance dist from the query *)
VisitNeighbor(st, e, dist, ef, t) ==
    IF dist < MaxNode(st.W, t)[1] \/ Cardinality(st.W) < ef
    THEN [st EXCEPT !.visited = @ \cup {e},
                    !.C = @ \cup {<<dist, e>>},
                    !.W = PushResult(@, <<dist, e>>, ef, t)]
    ELSE [st EXCEPT !.visited = @ \cup {e}]

RECURSIVE VisitNeighbors(_, _, _, _, _, _)
VisitNeighbors(d, q, ef, t, st, es) ==
    IF es = <<>> \/ st.err THEN st
    ELSE IF Head(es) \in st.visited
         THEN VisitNeighbors(d, q, ef, t, st, Tail(es))
    ELSE IF get_point_throws(d, Head(es)) THEN [st EXCEPT !.err = TRUE]
    ELSE VisitNeighbors(
             d, q, ef, t,
             VisitNeighbor(st, Head(es),
                           cosine_distance(q, get_point(d, Head(es))), ef, t),
             Tail(es))

(* step 3 and 4 for the closest candidate c *)
RECURSIVE SearchLoop(_, _, _, _, _, _)
ExpandCandidate(d, q, ef, layer, t, st, c) ==
    IF c[1] > MaxNode(st.W, t)[1] /\ Cardinality(st.W) >= ef
    THEN [st EXCEPT !.C = {}]
    ELSE IF get_neighbor_throws(d, layer, c[2]) THEN [st EXCEPT !.err = TRUE]
    ELSE SearchLoop(
             d, q, ef, layer, t,
             VisitNeighbors(d, q, ef, t,
                            [st EXCEPT !.C = @ \ {c}, !.hops = @ + 1],
                            SetToSortedSeq(DOMAIN get_neighbor(d, layer, c[2]))))

SearchLoop(d, q, ef, layer, t, st) ==
    IF st.err \/ st.C = {} THEN st
    ELSE ExpandCandidate(d, q, ef, layer, t, st, MinNode(st.C, t))

search_layer(d, q, entry_points, ef, layer, t) ==
    SearchLoop(d, q, ef, layer, t,
               [visited |-> {e[2] : e \in entry_points},
                C |-> entry_points, W |-> entry_points,
                err |-> FALSE, hops |-> 0])

----------------------------------------------------------------------------
(* select_neighbors (spec 4.6): the candidates C carry their distance to   *)
(* the reference point; the result is the set of nodes selected, at most m *)

(* e is closer to the reference point than to every node selected so far *)
Diverse(d, e, R) ==
    \A r \in R :
        e[1] < cosine_distance(get_point(d, e[2]), get_point(d, r[2]))

RECURSIVE SelectFrom(_, _, _, _)
SelectFrom(d, m, R, rest) ==
    IF rest = <<>> \/ Cardinality(R) = m THEN R
    ELSE IF Diverse(d, Head(rest), R)
         THEN SelectFrom(d, m, R \cup {Head(rest)}, Tail(rest))
         ELSE SelectFrom(d, m, R, Tail(rest))

select_neighbors(d, C, m, t) == SelectFrom(d, m, {}, SortNodes(C, t))

----------------------------------------------------------------------------
(* insert (spec 4.7).  Every step is [db |-> storage, err |-> it threw].   *)

NodeIds(S) == {e[2] : e \in S}

Restrict(f, S) == [x \in S |-> f[x]]

Cap(lc) == IF lc = 0 THEN M_max0 ELSE M_max

Step(d, err) == [db |-> d, err |-> err]

(* step 3: an empty adjacency record for idx on the layers 0..l; the     *)
(* layers above the old top are opened by new_neighbor, one call each     *)
RECURSIVE SeedLow(_, _, _, _)
SeedLow(d, idx, top, lc) ==
    IF lc > top THEN d
    ELSE SeedLow(upsert_neighbor(d, lc, idx, EmptyFn), idx, top, lc + 1)

RECURSIVE SeedHigh(_, _, _, _)
SeedHigh(d, idx, l, lc) ==
    IF lc > l THEN d ELSE SeedHigh(new_neighbor(d, idx), idx, l, lc + 1)

SeedGraph(d, idx, l, L_old) ==
    SeedHigh(SeedLow(d, idx, IF L_old < l THEN L_old ELSE l, 0),
             idx, l, L_old + 1)

(* step 5: greedy descent with ef = 1 from layer lc down to layer to + 1; *)
(* [err, ep |-> the node to enter layer `to` by]                          *)
RECURSIVE Descend(_, _, _, _, _, _)
DescendFrom(d, q, sr, lc, to, t) ==
    IF sr.err THEN [err |-> TRUE, ep |-> <<0, 0>>]
    ELSE Descend(d, q, MinNode(sr.W, t), lc - 1, to, t)

Descend(d, q, ep, lc, to, t) ==
    IF lc <= to THEN [err |-> FALSE, ep |-> ep]
    ELSE DescendFrom(d, q, search_layer(d, q, {ep}, 1, lc, t), lc, to, t)

(* step 6c: the edges idx <-> n for every chosen n *)
LinkNodes(d, idx, lc, newNode, nodes) ==
    upsert_neighbors(
        upsert_neighbor(d, lc, idx, newNode), lc,
        [n \in DOMAIN nodes |-> (idx :> newNode[n]) @@ nodes[n]])

LinkNeighbors(d, idx, lc, chosen) ==
    IF get_neighbors_throws(d, lc, SetToSortedSeq(NodeIds(chosen)))
    THEN Step(d, TRUE)
    ELSE Step(LinkNodes(d, idx, lc,
                        [n \in NodeIds(chosen) |->
                            (CHOOSE e \in chosen : e[2] = n)[1]],
                        get_neighbors(d, lc, SetToSortedSeq(NodeIds(chosen)))),
              FALSE)

(* step 6d for one neighbor n whose adjacency cur exceeds the cap: keep   *)
(* the selected ids and drop n from the adjacency of every id it lost     *)
ShrinkTo(d, lc, n, cur, keep) ==
    IF get_neighbors_throws(d, lc, SetToSortedSeq(DOMAIN cur \ keep))
    THEN Step(d, TRUE)
    ELSE Step(upsert_neighbors(
                  d, lc,
                  (n :> Restrict(cur, keep)) @@
                  [x \in DOMAIN cur \ keep |->
                      Restrict(get_neighbor(d, lc, x),
                               DOMAIN get_neighbor(d, lc, x) \ {n})]),
              FALSE)

PruneAdjacency(d, lc, n, cur, t) ==
    IF Cardinality(DOMAIN cur) <= Cap(lc) THEN Step(d, FALSE)
    ELSE IF get_points_throws(d, SetToSortedSeq(DOMAIN cur \cup {n}))
         THEN Step(d, TRUE)
    ELSE ShrinkTo(d, lc, n, cur,
                  NodeIds(select_neighbors(
                              d, {<<cur[x], x>> : x \in DOMAIN cur}, Cap(lc), t)))

PruneNeighbor(d, lc, n, t) ==
    IF get_neighbor_throws(d, lc, n) THEN Step(d, TRUE)
    ELSE PruneAdjacency(d, lc, n, get_neighbor(d, lc, n), t)

RECURSIVE PruneEach(_, _, _, _)
PruneEach(r, lc, ns, t) ==
    IF ns = <<>> \/ r.err THEN r
    ELSE PruneEach(PruneNeighbor(r.db, lc, Head(ns)[2], t), lc, Tail(ns), t)

PruneNeighbors(d, lc, chosen, t) ==
    PruneEach(Step(d, FALSE), lc, SortNodes(chosen, t), t)

(* step 6: the layers lc .. 0, entered by the nodes es *)
RECURSIVE BuildLayers(_, _, _, _, _, _)
LinkAndPrune(lk, lc, chosen, t) ==
    IF lk.err THEN lk ELSE PruneNeighbors(lk.db, lc, chosen, t)

BuildNext(pr, q, idx, W, lc, t) ==
    IF pr.err THEN pr ELSE BuildLayers(pr.db, q, idx, W, lc - 1, t)

BuildLayer(d, q, idx, sr, chosen, lc, t) ==
    BuildNext(LinkAndPrune(LinkNeighbors(d, idx, lc, chosen), lc, chosen, t),
              q, idx, sr.W, lc, t)

BuildSearched(d, q, idx, sr, lc, t) ==
    IF sr.err THEN Step(d, TRUE)
    ELSE BuildLayer(d, q, idx, sr, select_neighbors(d, sr.W, M, t), lc, t)

BuildLayers(d, q, idx, es, lc, t) ==
    IF lc < 0 THEN Step(d, FALSE)
    ELSE BuildSearched(d, q, idx,
                       search_layer(d, q, es, ef_construction, lc, t), lc, t)

(* steps 7 and 8 *)
WithMetadata(d, idx, meta) ==
    IF meta = None THEN d ELSE set_metadata(d, idx, meta[1])

Promote(d, idx, l, L_old) == IF l > L_old THEN set_ep(d, idx) ELSE d

InsertResult(d, idx, err) == [db |-> d, idx |-> idx, err |-> err]

InsertBuilt(bl, idx, l, L_old, meta) ==
    IF bl.err THEN InsertResult(bl.db, idx, TRUE)
    ELSE InsertResult(WithMetadata(Promote(bl.db, idx, l, L_old), idx, meta),
                      idx, FALSE)

InsertDescended(d, ds, q, idx, l, L_old, meta, t) ==
    IF ds.err THEN InsertResult(d, idx, TRUE)
    ELSE InsertBuilt(BuildLayers(d, q, idx, {ds.ep},
                                 IF L_old < l THEN L_old ELSE l, t),
                     idx, l, L_old, meta)

(* steps 4 to 8, on the storage holding the new point and its records *)
InsertSeeded(d, q, idx, l, prior, L_old, ep_old, meta, t) ==
    IF prior = 0
    THEN InsertResult(WithMetadata(set_ep(d, idx), idx, meta), idx, FALSE)
    ELSE IF ep_old = None THEN InsertResult(d, idx, TRUE)
    ELSE IF get_point_throws(d, ep_old[1]) THEN InsertResult(d, idx, TRUE)
    ELSE InsertDescended(
             d,
             Descend(d, q,
                     <<cosine_distance(q, get_point(d, ep_old[1])), ep_old[1]>>,
                     L_old, l, t),
             q, idx, l, L_old, meta, t)

InsertPoint(np, q, l, prior, L_old, ep_old, meta, t) ==
    InsertSeeded(SeedGraph(np.db, np.idx, l, L_old),
                 q, np.idx, l, prior, L_old, ep_old, meta, t)

(* insert: [db |-> storage afterwards, idx |-> the id, err |-> it threw] *)
insert(d, q, l, meta, t) ==
    InsertPoint(new_point(d, q), q, l, get_datasize(d),
                get_num_layers(d) - 1, get_ep(d), meta, t)

----------------------------------------------------------------------------
(* The storage writes of one insert, in the order it issues them: h is    *)
(* the sequence of storages so far, each one write after the one before   *)
(* it, the last being the current one.  A batched write (mset) is one     *)
(* write; the second pass of upsert_neighbors rewrites the same values.   *)

Cur(h) == h[Len(h)]

Written(h, d) == IF d = Cur(h) THEN h ELSE Append(h, d)

NewNode(chosen) ==
    [n \in NodeIds(chosen) |-> (CHOOSE e \in chosen : e[2] = n)[1]]

WritesNewPoint(h, q, idx) ==
    Append(Append(h, new_point_set_point(Cur(h), q, idx)),
           new_point_set_points(new_point_set_point(Cur(h), q, idx), idx))

RECURSIVE WritesSeedLow(_, _, _, _)
WritesSeedLow(h, idx, top, lc) ==
    IF lc > top THEN h
    ELSE WritesSeedLow(Append(h, upsert_neighbor(Cur(h), lc, idx, EmptyFn)),
                       idx, top, lc + 1)

RECURSIVE WritesSeedHigh(_, _, _, _)
WritesSeedHigh(h, idx, l, lc) ==
    IF lc > l THEN h
    ELSE WritesSeedHigh(
             Append(Append(h, new_neighbor_upsert(Cur(h), idx)),
                    new_neighbor(Cur(h), idx)),
             idx, l, lc + 1)

WritesSeedGraph(h, idx, l, L_old) ==
    WritesSeedHigh(WritesSeedLow(h, idx, IF L_old < l THEN L_old ELSE l, 0),
                   idx, l, L_old + 1)

WritesLink(h, idx, lc, chosen) ==
    Written(Append(h, upsert_neighbor(Cur(h), lc, idx, NewNode(chosen))),
            LinkNeighbors(Cur(h), idx, lc, chosen).db)

RECURSIVE WritesPrune(_, _, _, _)
WritesPrune(h, lc, ns, t) ==
    IF ns = <<>> THEN h
    ELSE WritesPrune(Written(h, PruneNeighbor(Cur(h), lc, Head(ns)[2], t).db),
                     lc, Tail(ns), t)

RECURSIVE WritesBuildLayers(_, _, _, _, _, _)
WritesBuildLayer(h, q, idx, sr, chosen, lc, t) ==
    WritesBuildLayers(
        WritesPrune(WritesLink(h, idx, lc, chosen), lc, SortNodes(chosen, t), t),
        q, idx, sr.W, lc - 1, t)

WritesBuildSearched(h, q, idx, sr, lc, t) ==
    IF sr.err THEN h
    ELSE WritesBuildLayer(h, q, idx, sr,
                          select_neighbors(Cur(h), sr.W, M, t), lc, t)

WritesBuildLayers(h, q, idx, es, lc, t) ==
    IF lc < 0 THEN h
    ELSE WritesBuildSearched(
             h, q, idx,
             search_layer(Cur(h), q, es, ef_construction, lc, t), lc, t)

WritesPromote(h, idx, l, L_old) ==
    IF l > L_old THEN Append(h, set_ep(Cur(h), idx)) ELSE h

WritesMetadata(h, idx, meta) ==
    IF meta = None THEN h ELSE Append(h, set_metadata(Cur(h), idx, meta[1]))

WritesDescended(h, ds, q, idx, l, L_old, meta, t) ==
    IF ds.err THEN h
    ELSE WritesMetadata(
             WritesPromote(
                 WritesBuildLayers(h, q, idx, {ds.ep},
                                   IF L_old < l THEN L_old ELSE l, t),
                 idx, l, L_old),
             idx, meta)

WritesSeeded(h, q, idx, l, prior, L_old, ep_old, meta, t) ==
    IF prior = 0
    THEN WritesMetadata(Append(h, set_ep(Cur(h), idx)), idx, meta)
    ELSE IF ep_old = None \/ get_point_throws(Cur(h), ep_old[1]) THEN h
    ELSE WritesDescended(
             h,
             Descend(Cur(h), q,
                     <<cosine_distance(q, get_point(Cur(h), ep_old[1])),
                       ep_old[1]>>,
                     L_old, l, t),
             q, idx, l, L_old, meta, t)

(* the storages an insert goes through, the one it starts on first *)
insert_writes(d, q, l, meta, t) ==
    WritesSeeded(
        WritesSeedGraph(WritesNewPoint(<<d>>, q, get_datasize(d)),
                        get_datasize(d), l, get_num_layers(d) - 1),
        q, get_datasize(d), l, get_datasize(d), get_num_layers(d) - 1,
        get_ep(d), meta, t)

----------------------------------------------------------------------------
(* knn_search (spec 4.8): [err |-> it threw, out |-> the KNNResult list,  *)
(* db |-> the storage after its storage calls]                            *)

KNNResults(top, metas) ==
    [i \in 1..Len(top) |->
        [id |-> top[i][2], distance |-> top[i][1], metadata |-> metas[i]]]

KnnFailed(d) == [err |-> TRUE, out |-> <<>>, db |-> d]

KnnTop(d, top) ==
    [err |-> FALSE,
     out |-> KNNResults(top, get_metadatas(d, [i \in 1..Len(top) |-> top[i][2]])),
     db |-> get_metadatas_db(d, [i \in 1..Len(top) |-> top[i][2]])]

KnnLayer0(d, sr, K, t) ==
    IF sr.err THEN KnnFailed(d)
    ELSE KnnTop(d, Take(SortNodes(sr.W, t), K))

KnnDescended(d, q, ds, K, t) ==
    IF ds.err THEN KnnFailed(d)
    ELSE KnnLayer0(d,
                   search_layer(d, q, {ds.ep},
                                IF ef_search < K THEN K ELSE ef_search, 0, t),
                   K, t)

KnnFrom(d, q, ep, K, t) ==
    IF get_point_throws(d, ep) THEN KnnFailed(d)
    ELSE KnnDescended(d, q,
                      Descend(d, q, <<cosine_distance(q, get_point(d, ep)), ep>>,
                              get_num_layers(d) - 1, 0, t),
                      K, t)

knn_search(d, q, K, t) ==
    IF get_ep(d) = None THEN [err |-> FALSE, out |-> <<>>, db |-> d]
    ELSE KnnFrom(d, q, get_ep(d)[1], K, t)

----------------------------------------------------------------------------
(* The state machine: serialized inserts and searches on one index *)

Levels == 0..MaxLevel

Init ==
    /\ db = EmptyDB
    /\ tie \in {"lo", "hi"}
    /\ log = <<>>
    /\ failed = FALSE
    /\ res = None
    /\ calls = <<>>

(* A data set is inserted in list order, repeats of earlier vectors       *)
(* allowed: an insert draws a stored vector or the first unused one       *)
InsertVecs ==
    LET k == Cardinality({i \in 1..Len(VecList) :
                            \E j \in DOMAIN db.point :
                               decodePoint(db.point[j]).v = VecList[i]}) + 1
    IN {VecList[i] : i \in 1..(IF k < Len(VecList) THEN k ELSE Len(VecList))}

(* Any level for the first n points; an index whose points all drew      *)
(* level 0 grows to MaxFlat points                                        *)
MayInsert(l, n) ==
    \/ get_datasize(db) < n
    \/ /\ get_datasize(db) < MaxFlat
       /\ l = 0
       /\ get_num_layers(db) <= 1

(* the directed edges <<layer, a, b>> stored in d *)
EdgesOf(d) ==
    UNION {{<<k[1], k[2], b>> : b \in DOMAIN d.neighbor[k].neighbors} :
              k \in DOMAIN d.neighbor}

(* The caller awaits each operation: an operation starts once the result *)
(* of the previous search has been taken (Return)                        *)
Insert(q, l, meta) ==
    /\ ~failed
    /\ res = None
    /\ LET r == insert(db, q, l, meta, tie)
       IN /\ db' = r.db
          /\ failed' = r.err
          /\ log' = Append(log, [point |-> q, level |-> l, metadata |-> meta,
                                 id |-> r.idx, ep_before |-> get_ep(db),
                                 layers_before |-> get_num_layers(db),
                                 lost |-> EdgesOf(db) \ EdgesOf(r.db)])
    /\ UNCHANGED <<tie, res, calls>>

KnnSearch(q, K) ==
    /\ ~failed
    /\ res = None
    /\ LET r == knn_search(db, q, K, tie)
       IN /\ res' = Some([query |-> q, K |-> K, err |-> r.err, out |-> r.out])
          /\ db' = r.db
    /\ UNCHANGED <<tie, log, failed, calls>>

Return ==
    /\ res # None
    /\ res' = None
    /\ UNCHANGED <<db, tie, log, failed, calls>>

(* Building an index: serialized inserts *)
InsertBuild(q, l) ==
    /\ MayInsert(l, MaxInserts)
    /\ Insert(q, l, None)

NextBuild == \E q \in InsertVecs, l \in Levels : InsertBuild(q, l)

SpecBuild == Init /\ [][NextBuild]_vars

(* Building and querying an index: serialized inserts and searches *)
InsertSearched(q, l) ==
    /\ MayInsert(l, MaxSearched)
    /\ Insert(q, l, None)

Next ==
    \/ \E q \in InsertVecs, l \in Levels : InsertSearched(q, l)
    \/ \E q \in Vecs, K \in 1..MaxK : KnnSearch(q, K)
    \/ Return

Spec == Init /\ [][Next]_vars

(* The same with metadata attached to the points *)
InsertMeta(q, l, meta) ==
    /\ get_datasize(db) < MaxMeta
    /\ Insert(q, l, meta)

NextMeta ==
    \/ \E q \in InsertVecs, l \in Levels, meta \in {None} \cup {Some(m) : m \in Metas} :
          InsertMeta(q, l, meta)
    \/ \E q \in InsertVecs, K \in 1..MaxK : KnnSearch(q, K)
    \/ Return

SpecMeta == Init /\ [][NextMeta]_vars

----------------------------------------------------------------------------
(* new_point calls of two callers whose storage calls interleave: every   *)
(* await of new_point is a step.  calls[p] is the call of caller p, log   *)
(* the point writes and the returns in the order they happened.           *)

Procs == 1..2

RaceVecs == {VecList[i] : i \in 1..2}

Idle == [pc |-> "idle", q |-> None, idx |-> None, alone |-> TRUE, n |-> 0]

InitRace ==
    /\ db = EmptyDB
    /\ tie = "lo"
    /\ log = <<>>
    /\ failed = FALSE
    /\ res = None
    /\ calls = [p \in Procs |-> Idle]

InFlight(p) == calls[p].pc # "idle"

(* the calls made so far *)
RECURSIVE Called(_)
Called(p) == IF p \notin Procs THEN 0 ELSE calls[p].n + Called(p + 1)

Event(op, p) ==
    [op |-> op, proc |-> p, point |-> calls[p].q[1], id |-> calls[p].idx[1],
     alone |-> calls[p].alone]

(* caller p calls new_point(q) *)
NewPointCall(p, q) ==
    /\ ~InFlight(p)
    /\ Called(1) < MaxCalls
    /\ calls' = [o \in Procs |->
                    IF o = p
                    THEN [calls[p] EXCEPT
                              !.pc = "get_datasize", !.q = Some(q),
                              !.alone = \A r \in Procs \ {p} : ~InFlight(r),
                              !.n = @ + 1]
                    ELSE [calls[o] EXCEPT !.alone = @ /\ ~InFlight(o)]]
    /\ UNCHANGED <<db, tie, log, failed, res>>

(* const idx = await this.get_datasize() *)
NewPointGetDatasize(p) ==
    /\ calls[p].pc = "get_datasize"
    /\ calls' = [calls EXCEPT ![p].pc = "set_point",
                              ![p].idx = Some(get_datasize(db))]
    /\ UNCHANGED <<db, tie, log, failed, res>>

(* await this.client.set(keys.point(idx), point) *)
NewPointSetPoint(p) ==
    /\ calls[p].pc = "set_point"
    /\ db' = new_point_set_point(db, calls[p].q[1], calls[p].idx[1])
    /\ log' = Append(log, Event("set_point", p))
    /\ calls' = [calls EXCEPT ![p].pc = "set_points"]
    /\ UNCHANGED <<tie, failed, res>>

(* await this.client.set(keys.points, (idx + 1).toString()); return idx *)
NewPointSetPoints(p) ==
    /\ calls[p].pc = "set_points"
    /\ db' = new_point_set_points(db, calls[p].idx[1])
    /\ log' = Append(log, Event("return", p))
    /\ calls' = [calls EXCEPT ![p].pc = "idle"]
    /\ UNCHANGED <<tie, failed, res>>

NextRace ==
    \/ \E p \in Procs, q \in RaceVecs : NewPointCall(p, q)
    \/ \E p \in Procs : NewPointGetDatasize(p)
    \/ \E p \in Procs : NewPointSetPoint(p)
    \/ \E p \in Procs : NewPointSetPoints(p)

SpecRace == InitRace /\ [][NextRace]_vars

----------------------------------------------------------------------------
(* new_neighbor calls of two callers whose storage calls interleave:      *)
(* every await of new_neighbor is a step.  calls[p] is the call of caller *)
(* p, log the record writes and the returns in the order they happened.   *)

RaceIds == 0..1

IdleLayer == [pc |-> "idle", idx |-> None, l |-> None, alone |-> TRUE, n |-> 0]

InitLayerRace ==
    /\ db = EmptyDB
    /\ tie = "lo"
    /\ log = <<>>
    /\ failed = FALSE
    /\ res = None
    /\ calls = [p \in Procs |-> IdleLayer]

LayerEvent(op, p) ==
    [op |-> op, proc |-> p, idx |-> calls[p].idx[1], layer |-> calls[p].l[1],
     alone |-> calls[p].alone]

(* caller p calls new_neighbor(idx) *)
NewNeighborCall(p, idx) ==
    /\ ~InFlight(p)
    /\ Called(1) < MaxCalls
    /\ calls' = [o \in Procs |->
                    IF o = p
                    THEN [calls[p] EXCEPT
                              !.pc = "get_num_layers", !.idx = Some(idx),
                              !.alone = \A r \in Procs \ {p} : ~InFlight(r),
                              !.n = @ + 1]
                    ELSE [calls[o] EXCEPT !.alone = @ /\ ~InFlight(o)]]
    /\ UNCHANGED <<db, tie, log, failed, res>>

(* const l = await this.get_num_layers() *)
NewNeighborGetNumLayers(p) ==
    /\ calls[p].pc = "get_num_layers"
    /\ calls' = [calls EXCEPT ![p].pc = "upsert_neighbor",
                              ![p].l = Some(get_num_layers(db))]
    /\ UNCHANGED <<db, tie, log, failed, res>>

(* await this.upsert_neighbor(l, idx, {}) *)
NewNeighborUpsert(p) ==
    /\ calls[p].pc = "upsert_neighbor"
    /\ db' = upsert_neighbor(db, calls[p].l[1], calls[p].idx[1], EmptyFn)
    /\ log' = Append(log, LayerEvent("upsert_neighbor", p))
    /\ calls' = [calls EXCEPT ![p].pc = "set_layers"]
    /\ UNCHANGED <<tie, failed, res>>

(* await this.client.set(keys.layers, (l + 1).toString()) *)
NewNeighborSetLayers(p) ==
    /\ calls[p].pc = "set_layers"
    /\ db' = new_neighbor_set_layers(db, calls[p].l[1])
    /\ log' = Append(log, LayerEvent("return", p))
    /\ calls' = [calls EXCEPT ![p].pc = "idle"]
    /\ UNCHANGED <<tie, failed, res>>

NextLayerRace ==
    \/ \E p \in Procs, idx \in RaceIds : NewNeighborCall(p, idx)
    \/ \E p \in Procs : NewNeighborGetNumLayers(p)
    \/ \E p \in Procs : NewNeighborUpsert(p)
    \/ \E p \in Procs : NewNeighborSetLayers(p)

SpecLayerRace == InitLayerRace /\ [][NextLayerRace]_vars

----------------------------------------------------------------------------
(* new_point calls of a single caller, any of which may be abandoned or   *)
(* fail at one of its awaits: the writes made so far stay, the rest of    *)
(* the call does not happen                                               *)

Writer == 1

(* the call in flight stops: before its point write (cancel) or between   *)
(* its two writes (abandon)                                               *)
NewPointAbandon(p) ==
    /\ InFlight(p)
    /\ log' = Append(log,
                     [op |-> IF calls[p].pc = "set_points"
                             THEN "abandon" ELSE "cancel",
                      proc |-> p, point |-> calls[p].q[1],
                      id |-> get_datasize(db), alone |-> calls[p].alone])
    /\ calls' = [calls EXCEPT ![p].pc = "idle"]
    /\ UNCHANGED <<db, tie, failed, res>>

NextWriter ==
    \/ \E q \in RaceVecs : NewPointCall(Writer, q)
    \/ NewPointGetDatasize(Writer)
    \/ NewPointSetPoint(Writer)
    \/ NewPointSetPoints(Writer)
    \/ NewPointAbandon(Writer)

SpecWriter == InitRace /\ [][NextWriter]_vars

----------------------------------------------------------------------------
(* An insert that stops after a prefix of its storage writes (a write     *)
(* fails or the caller abandons it), then searches on what it left        *)

InsertWhole(q, l) ==
    /\ calls = <<>>
    /\ get_datasize(db) < MaxAbandoned
    /\ Insert(q, l, None)

(* the insert of q at level l stops with n - 1 of its writes made *)
InsertAbandoned(q, l, n) ==
    /\ calls = <<>>
    /\ ~failed
    /\ res = None
    /\ n < Len(insert_writes(db, q, l, None, tie))
    /\ db' = insert_writes(db, q, l, None, tie)[n]
    /\ calls' = <<[point |-> q, level |-> l, id |-> get_datasize(db),
                   writes |-> n - 1, before |-> db,
                   left |-> insert_writes(db, q, l, None, tie)[n]]>>
    /\ UNCHANGED <<tie, log, failed, res>>

KnnAfter(q, K) ==
    /\ calls # <<>>
    /\ KnnSearch(q, K)

NextPartial ==
    \/ \E q \in InsertVecs, l \in Levels : InsertWhole(q, l)
    \/ \E q \in InsertVecs, l \in Levels :
          \E n \in DOMAIN insert_writes(db, q, l, None, tie) :
              InsertAbandoned(q, l, n)
    \/ \E q \in InsertVecs, K \in 1..MaxK : KnnAfter(q, K)
    \/ Return

SpecPartial == Init /\ [][NextPartial]_vars

----------------------------------------------------------------------------
(* One knn_search whose storage reads interleave with the storage writes  *)
(* of one insert in progress.  calls.pending: the storages the insert has *)
(* still to go through; calls.s: the position of the search, which awaits *)
(* every storage read (spec 4.5, 4.8, 5).                                 *)

NoSearch ==
    [pc |-> "idle", q |-> None, K |-> 0, ep |-> 0, lc |-> 0, ef |-> 0,
     st |-> None, es |-> <<>>]

InitConc ==
    /\ db = EmptyDB
    /\ tie \in {"lo", "hi"}
    /\ log = <<>>
    /\ failed = FALSE
    /\ res = None
    /\ calls = [started |-> FALSE, pending |-> <<>>, s |-> NoSearch]

(* the index is built by whole inserts before the two operations start *)
InsertQuiesced(q, l) ==
    /\ ~calls.started
    /\ get_datasize(db) < MaxQuiesced
    /\ Insert(q, l, None)

(* insert(q) with drawn level l starts: its first write *)
InsertBegin(q, l) ==
    /\ ~calls.started
    /\ ~failed
    /\ db' = insert_writes(db, q, l, None, tie)[2]
    /\ calls' = [calls EXCEPT
                    !.started = TRUE,
                    !.pending = Tail(Tail(insert_writes(db, q, l, None, tie)))]
    /\ UNCHANGED <<tie, log, failed, res>>

(* the next write of the insert in progress *)
InsertWrite ==
    /\ calls.started
    /\ calls.pending # <<>>
    /\ db' = Head(calls.pending)
    /\ calls' = [calls EXCEPT !.pending = Tail(@)]
    /\ UNCHANGED <<tie, log, failed, res>>

Searching(pc) == calls.started /\ calls.s.pc = pc

KsDone(err, out) ==
    /\ res' = Some([query |-> calls.s.q[1], K |-> calls.s.K,
                     err |-> err, out |-> out])
    /\ calls' = [calls EXCEPT !.s.pc = "done"]

(* the search enters layer lc by the node ep *)
EnterLayer(s, ep, lc) ==
    [s EXCEPT !.pc = "expand",
              !.lc = lc,
              !.ef = IF lc > 0 THEN 1
                     ELSE IF ef_search < s.K THEN s.K ELSE ef_search,
              !.st = [visited |-> {ep[2]}, C |-> {ep}, W |-> {ep},
                      err |-> FALSE, hops |-> 0],
              !.es = <<>>]

(* search_layer returned on layer s.lc *)
LayerDone(s) ==
    IF s.lc = 0 THEN [s EXCEPT !.pc = "get_metadatas"]
    ELSE EnterLayer(s, MinNode(s.st.W, tie), s.lc - 1)

(* knn_search(q, K) is called while the insert is in progress *)
KsStart(q, K) ==
    /\ Searching("idle")
    /\ calls' = [calls EXCEPT !.s = [NoSearch EXCEPT !.pc = "get_ep",
                                                     !.q = Some(q), !.K = K]]
    /\ UNCHANGED <<db, tie, log, failed, res>>

KsGetEp ==
    /\ Searching("get_ep")
    /\ IF get_ep(db) = None
       THEN KsDone(FALSE, <<>>)
       ELSE /\ calls' = [calls EXCEPT !.s.pc = "get_point",
                                      !.s.ep = get_ep(db)[1]]
            /\ res' = res
    /\ UNCHANGED <<db, tie, log, failed>>

KsGetPoint ==
    /\ Searching("get_point")
    /\ IF get_point_throws(db, calls.s.ep)
       THEN KsDone(TRUE, <<>>)
       ELSE /\ calls' = [calls EXCEPT
                           !.s.pc = "get_num_layers",
                           !.s.st = <<cosine_distance(
                                         calls.s.q[1],
                                         get_point(db, calls.s.ep)),
                                      calls.s.ep>>]
            /\ res' = res
    /\ UNCHANGED <<db, tie, log, failed>>

KsGetNumLayers ==
    /\ Searching("get_num_layers")
    /\ calls' = [calls EXCEPT
                    !.s = EnterLayer(calls.s, calls.s.st, get_num_layers(db) - 1)]
    /\ UNCHANGED <<db, tie, log, failed, res>>

(* search_layer step 3 and the fetch of the neighbors of the closest *)
(* candidate c                                                       *)
KsExpandCandidate(c) ==
    IF c[1] > MaxNode(calls.s.st.W, tie)[1]
       /\ Cardinality(calls.s.st.W) >= calls.s.ef
    THEN calls' = [calls EXCEPT !.s = LayerDone(calls.s)] /\ res' = res
    ELSE IF get_neighbor_throws(db, calls.s.lc, c[2])
         THEN KsDone(TRUE, <<>>)
    ELSE /\ calls' = [calls EXCEPT
                        !.s.st.C = @ \ {c},
                        !.s.st.hops = @ + 1,
                        !.s.es = SetToSortedSeq(
                                     DOMAIN get_neighbor(db, calls.s.lc, c[2])
                                     \ calls.s.st.visited),
                        !.s.pc = IF DOMAIN get_neighbor(db, calls.s.lc, c[2])
                                    \subseteq calls.s.st.visited
                                 THEN "expand" ELSE "visit"]
         /\ res' = res

KsExpand ==
    /\ Searching("expand")
    /\ IF calls.s.st.C = {}
       THEN calls' = [calls EXCEPT !.s = LayerDone(calls.s)] /\ res' = res
       ELSE KsExpandCandidate(MinNode(calls.s.st.C, tie))
    /\ UNCHANGED <<db, tie, log, failed>>

(* search_layer step 4 for the next unvisited neighbor: fetch its point *)
KsVisit ==
    /\ Searching("visit")
    /\ IF get_point_throws(db, Head(calls.s.es))
       THEN KsDone(TRUE, <<>>)
       ELSE /\ calls' = [calls EXCEPT
                           !.s.st = VisitNeighbor(
                                        @, Head(calls.s.es),
                                        cosine_distance(
                                            calls.s.q[1],
                                            get_point(db, Head(calls.s.es))),
                                        calls.s.ef, tie),
                           !.s.es = Tail(@),
                           !.s.pc = IF Tail(calls.s.es) = <<>>
                                    THEN "expand" ELSE "visit"]
            /\ res' = res
    /\ UNCHANGED <<db, tie, log, failed>>

KsGetMetadatas ==
    /\ Searching("get_metadatas")
    /\ KsDone(FALSE, KnnTop(db, Take(SortNodes(calls.s.st.W, tie), calls.s.K)).out)
    /\ UNCHANGED <<db, tie, log, failed>>

NextConc ==
    \/ \E q \in InsertVecs, l \in Levels : InsertQuiesced(q, l)
    \/ \E q \in InsertVecs, l \in Levels : InsertBegin(q, l)
    \/ InsertWrite
    \/ \E q \in InsertVecs, K \in 1..MaxK : KsStart(q, K)
    \/ KsGetEp
    \/ KsGetPoint
    \/ KsGetNumLayers
    \/ KsExpand
    \/ KsVisit
    \/ KsGetMetadatas

SpecConc == InitConc /\ [][NextConc]_vars

----------------------------------------------------------------------------
(* Vectors of several dimensions: the distance function applied to any    *)
(* two of them, and inserts into an index holding another dimension       *)

DimVecs == {<<3, 0>>, <<0, 3>>, <<3, 0, 0>>, <<1, 2, 2>>, <<1, 2, 2, 0>>}

(* the caller evaluates the index's distance function on a and b *)
Distance(a, b) ==
    /\ calls' = <<[a |-> a, b |-> b, out |-> cosine_distance_js(a, b)]>>
    /\ UNCHANGED <<db, tie, log, failed, res>>

(* insert(q) into an index of at most one point, q no longer than it *)
InsertDim(q, l) ==
    /\ get_datasize(db) < 2
    /\ \A i \in DOMAIN db.point : Len(q) <= Len(get_point(db, i))
    /\ Insert(q, l, None)

NextDim ==
    \/ \E a, b \in DimVecs : Distance(a, b)
    \/ \E q \in DimVecs, l \in Levels : InsertDim(q, l)

SpecDim == Init /\ [][NextDim]_vars

----------------------------------------------------------------------------
(* Direct calls of the storage operations on the storage of an index:    *)
(* calls holds the last call, its arguments, the storage before it and    *)
(* its outcome.  One new_neighbor call may precede the read.              *)

StoreInsert(q, l) ==
    /\ calls = <<>>
    /\ get_datasize(db) < MaxStore
    /\ Insert(q, l, None)

StoreIds == 0..get_datasize(db)

StoreLayers == 0..get_num_layers(db)

(* requests of up to MaxBatch different ids, in any order *)
StoreBatches ==
    {b \in UNION {[1..n -> StoreIds] : n \in 0..MaxBatch} :
        \A i, j \in DOMAIN b : b[i] = b[j] => i = j}

Called_(op, layer, idxs, threw, out) ==
    <<[op |-> op, layer |-> layer, idxs |-> idxs, before |-> db,
       threw |-> threw, out |-> out]>>

Unread == IF calls = <<>> THEN TRUE ELSE calls[1].op = "new_neighbor"

NewNeighbor(idx) ==
    /\ calls = <<>>
    /\ db' = new_neighbor(db, idx)
    /\ calls' = Called_("new_neighbor", get_num_layers(db), <<idx>>, FALSE, <<>>)
    /\ UNCHANGED <<tie, log, failed, res>>

GetPoint(idx) ==
    /\ Unread
    /\ calls' = Called_("get_point", 0, <<idx>>, get_point_throws(db, idx),
                        IF get_point_throws(db, idx) THEN <<>>
                        ELSE get_point(db, idx))
    /\ UNCHANGED <<db, tie, log, failed, res>>

GetPoints(idxs) ==
    /\ Unread
    /\ calls' = Called_("get_points", 0, idxs, get_points_throws(db, idxs),
                        IF get_points_throws(db, idxs) THEN <<>>
                        ELSE get_points(db, idxs))
    /\ UNCHANGED <<db, tie, log, failed, res>>

GetNeighbor(layer, idx) ==
    /\ Unread
    /\ calls' = Called_("get_neighbor", layer, <<idx>>,
                        get_neighbor_throws(db, layer, idx),
                        IF get_neighbor_throws(db, layer, idx) THEN <<>>
                        ELSE get_neighbor(db, layer, idx))
    /\ UNCHANGED <<db, tie, log, failed, res>>

GetNeighbors(layer, idxs) ==
    /\ Unread
    /\ calls' = Called_("get_neighbors", layer, idxs,
                        get_neighbors_throws(db, layer, idxs),
                        IF get_neighbors_throws(db, layer, idxs) THEN <<>>
                        ELSE get_neighbors(db, layer, idxs))
    /\ UNCHANGED <<db, tie, log, failed, res>>

NextStore ==
    \/ \E q \in InsertVecs, l \in Levels : StoreInsert(q, l)
    \/ \E idx \in StoreIds : NewNeighbor(idx)
    \/ \E idx \in StoreIds : GetPoint(idx)
    \/ \E idxs \in StoreBatches : GetPoints(idxs)
    \/ \E layer \in StoreLayers, idx \in StoreIds : GetNeighbor(layer, idx)
    \/ \E layer \in StoreLayers, idxs \in StoreBatches : GetNeighbors(layer, idxs)

SpecStore == Init /\ [][NextStore]_vars

----------------------------------------------------------------------------
(* Adjacency writes called directly on the storage, one after another:    *)
(* calls holds the last call, the storage before it and the storage its   *)
(* batch write alone leaves; log counts the calls made.                   *)

MaxUpserts == 2

UpsertIds == 0..1

UpsertLayers == 0..1

(* the LayerNode maps written: neighbor id -> cached distance *)
LayerNodes == UNION {[S -> {Unit}] : S \in SUBSET UpsertIds}

(* the Graph arguments: up to MaxBatch ids, each with its LayerNode *)
Graphs ==
    UNION {[S -> LayerNodes] :
              S \in {T \in SUBSET UpsertIds : Cardinality(T) <= MaxBatch}}

Upserted(op, layer, nodes, threw, mset) ==
    <<[op |-> op, layer |-> layer, nodes |-> nodes, before |-> db,
       threw |-> threw, mset |-> mset]>>

UpsertNeighbor(layer, idx, node) ==
    /\ Len(log) < MaxUpserts
    /\ db' = upsert_neighbor(db, layer, idx, node)
    /\ calls' = Upserted("upsert_neighbor", layer, (idx :> node), FALSE,
                         upsert_neighbor(db, layer, idx, node))
    /\ log' = Append(log, "upsert_neighbor")
    /\ UNCHANGED <<tie, failed, res>>

UpsertNeighbors(layer, nodes) ==
    /\ Len(log) < MaxUpserts
    /\ db' = IF mset_throws(nodes) THEN db
             ELSE upsert_neighbors(db, layer, nodes)
    /\ calls' = Upserted("upsert_neighbors", layer, nodes, mset_throws(nodes),
                         IF mset_throws(nodes) THEN db
                         ELSE upsert_neighbors_mset(db, layer, nodes))
    /\ log' = Append(log, "upsert_neighbors")
    /\ UNCHANGED <<tie, failed, res>>

NextUpsert ==
    \/ \E layer \in UpsertLayers, idx \in UpsertIds, node \in LayerNodes :
          UpsertNeighbor(layer, idx, node)
    \/ \E layer \in UpsertLayers, nodes \in Graphs :
          UpsertNeighbors(layer, nodes)

SpecUpsert == Init /\ [][NextUpsert]_vars

----------------------------------------------------------------------------
(* search_layer and the ef = 1 descent called on the storage of an index  *)
(* built by serialized inserts: calls holds the call and what it returned *)

MaxLayered == 3

(* the widths the index searches a layer with: 1 in the descent,          *)
(* ef_construction in insert, max(ef_search, K) in knn_search              *)
Widths == {1, ef_construction} \cup {Max(ef_search, K) : K \in 1..MaxK}

(* the data set is inserted in list order, each point at any level *)
LayeredInsert(l) ==
    /\ calls = <<>>
    /\ get_datasize(db) < MaxLayered
    /\ Insert(VecList[get_datasize(db) + 1], l, None)

(* the ids holding a record on the layer *)
LayerIds(d, layer) == {k[2] : k \in {r \in DOMAIN d.neighbor : r[1] = layer}}

(* entry points: nodes of the layer with their distance to q *)
EntryNodes(d, q, S) == {<<cosine_distance(q, get_point(d, i)), i>> : i \in S}

(* search_layer(q, entry_points, ef, layer) with 1 <= |entry_points| <= ef, *)
(* as insert and knn_search call it                                         *)
SearchLayer(q, S, ef, layer) ==
    /\ calls = <<>>
    /\ ~failed
    /\ S # {}
    /\ Cardinality(S) <= ef
    /\ calls' = <<[op |-> "search_layer", q |-> q, ef |-> ef, layer |-> layer,
                   entry_points |-> EntryNodes(db, q, S),
                   out |-> search_layer(db, q, EntryNodes(db, q, S), ef,
                                        layer, tie)]>>
    /\ UNCHANGED <<db, tie, log, failed, res>>

(* the searches of the descent from node ep on the layers lc .. to + 1: *)
(* one [layer, ep, out] per layer                                       *)
RECURSIVE DescentTrace(_, _, _, _, _, _)
DescentTraceFrom(d, q, ep, sr, lc, to, t) ==
    <<[layer |-> lc, ep |-> ep, out |-> sr]>> \o
    (IF sr.err THEN <<>>
     ELSE DescentTrace(d, q, MinNode(sr.W, t), lc - 1, to, t))

DescentTrace(d, q, ep, lc, to, t) ==
    IF lc <= to THEN <<>>
    ELSE DescentTraceFrom(d, q, ep, search_layer(d, q, {ep}, 1, lc, t),
                          lc, to, t)

(* the descent for q from the entry point through every layer *)
DescentFromEp(q) ==
    /\ calls = <<>>
    /\ ~failed
    /\ get_ep(db) # None
    /\ calls' = <<[op |-> "descent", q |-> q,
                   layers |-> DescentTrace(
                                  db, q,
                                  <<cosine_distance(
                                        q, get_point(db, get_ep(db)[1])),
                                    get_ep(db)[1]>>,
                                  get_num_layers(db) - 1, -1, tie)]>>
    /\ UNCHANGED <<db, tie, log, failed, res>>

NextLayered ==
    \/ \E l \in Levels : LayeredInsert(l)
    \/ \E q \in Vecs, ef \in Widths, layer \in 0..(get_num_layers(db) - 1) :
          \E S \in SUBSET LayerIds(db, layer) : SearchLayer(q, S, ef, layer)
    \/ \E q \in Vecs : DescentFromEp(q)

SpecLayered == Init /\ [][NextLayered]_vars

----------------------------------------------------------------------------
(* select_neighbors called on the points of a built index: the candidates *)
(* are stored ids with their distance to the reference point q, the       *)
(* target size is one the index uses (M in insert, the layer cap in the   *)
(* pruning)                                                               *)

Targets == {M, M_max, M_max0}

SelectNeighbors(q, S, m) ==
    /\ calls = <<>>
    /\ ~failed
    /\ calls' = <<[op |-> "select_neighbors", q |-> q, m |-> m,
                   C |-> EntryNodes(db, q, S),
                   out |-> select_neighbors(db, EntryNodes(db, q, S), m, tie)]>>
    /\ UNCHANGED <<db, tie, log, failed, res>>

NextSelect ==
    \/ \E l \in Levels : LayeredInsert(l)
    \/ \E q \in Vecs, m \in Targets :
          \E S \in SUBSET DOMAIN db.point : SelectNeighbors(q, S, m)

SpecSelect == Init /\ [][NextSelect]_vars

----------------------------------------------------------------------------
(* One NodeHeap: nodes are pushed, then popped until it is empty.  calls  *)
(* holds the heap array, the nodes pushed in push order and the nodes     *)
(* popped in pop order.                                                   *)

MaxHeap == 3

HeapNodes == {<<dist, id>> : dist \in {0, Unit}, id \in 0..2}

InitHeap ==
    /\ db = EmptyDB
    /\ tie = "lo"
    /\ log = <<>>
    /\ failed = FALSE
    /\ res = None
    /\ calls = [heap |-> <<>>, pushed |-> <<>>, popped |-> <<>>]

HeapPush(node) ==
    /\ Len(calls.pushed) < MaxHeap
    /\ calls.popped = <<>>
    /\ \A k \in DOMAIN calls.pushed : calls.pushed[k][2] # node[2]
    /\ calls' = [calls EXCEPT !.heap = heap_push(@, node),
                              !.pushed = Append(@, node)]
    /\ UNCHANGED <<db, tie, log, failed, res>>

HeapPop ==
    /\ calls.heap # <<>>
    /\ calls' = [calls EXCEPT !.heap = heap_pop(@),
                              !.popped = Append(@, calls.heap[1])]
    /\ UNCHANGED <<db, tie, log, failed, res>>

NextHeap ==
    \/ \E node \in HeapNodes : HeapPush(node)
    \/ HeapPop

SpecHeap == InitHeap /\ [][NextHeap]_vars

----------------------------------------------------------------------------
(* Calls of the compatibility SDK: calls.sent is the interactions issued, *)
(* calls.last the last call, its arguments and its outcome                *)

MaxSdkCalls == 2

MaxKeys == 2

SdkKeys == {"a", "b"}

SdkValues == {"x"}

Lists(S) == UNION {[1..n -> S] : n \in 0..MaxKeys}

InitSdk ==
    /\ db = EmptyDB
    /\ tie = "lo"
    /\ log = <<>>
    /\ failed = FALSE
    /\ res = None
    /\ calls = [n |-> 0, sent |-> <<>>, last |-> None]

SdkCalled(op, keys, values, r) ==
    [n |-> calls.n + 1, sent |-> r.sent,
     last |-> Some([op |-> op, keys |-> keys, values |-> values,
                    before |-> calls.sent, threw |-> r.threw])]

SetMany(keys, values) ==
    /\ calls.n < MaxSdkCalls
    /\ calls' = SdkCalled("setMany", keys, values,
                          setMany(calls.sent, keys, values))
    /\ UNCHANGED <<db, tie, log, failed, res>>

Set(key, value) ==
    /\ calls.n < MaxSdkCalls
    /\ calls' = SdkCalled("set", <<key>>, <<value>>,
                          set(calls.sent, key, value))
    /\ UNCHANGED <<db, tie, log, failed, res>>

NextSdk ==
    \/ \E keys \in Lists(SdkKeys), values \in Lists(SdkValues) :
          SetMany(keys, values)
    \/ \E key \in SdkKeys, value \in SdkValues : Set(key, value)

SpecSdk == InitSdk /\ [][NextSdk]_vars

----------------------------------------------------------------------------
(* Views of the stored graph *)

Ids == 0..(get_datasize(db) - 1)

HasRecord(l, a) == <<l, a>> \in DOMAIN db.neighbor

(* the stored adjacency N(a, l); empty when there is no record *)
Adj(l, a) == IF HasRecord(l, a) THEN DOMAIN get_neighbor(db, l, a) ELSE {}

RecordKeys == DOMAIN db.neighbor

Completed == ~failed /\ Len(log) > 0

LastInsert == log[Len(log)]

(* the edges removed by the pruning of some insert *)
Lost == UNION {log[k].lost : k \in 1..Len(log)}

(* the ids reachable from id a along the stored edges of layer l *)
Reachable(l, a) ==
    LET RECURSIVE Grow(_)
        Grow(S) ==
            IF \A x \in S : Adj(l, x) \subseteq S THEN S
            ELSE Grow(S \cup UNION {Adj(l, x) : x \in S})
    IN Grow({a})

Layer0Connected ==
    get_ep(db) # None => Reachable(0, get_ep(db)[1]) = Ids

(* the ids within n edges of the set S on layer l of the storage d *)
RECURSIVE Ball(_, _, _, _)
Ball(d, l, S, n) ==
    IF n = 0 THEN S
    ELSE Ball(d, l, S \cup UNION {DOMAIN get_neighbor(d, l, x) : x \in S}, n - 1)

(* the largest distance in edges from a to an id it reaches on layer l *)
Eccentricity(d, l, a) ==
    CHOOSE n \in 0..Cardinality(LayerIds(d, l)) :
        /\ Ball(d, l, {a}, n) = Ball(d, l, {a}, n + 1)
        /\ \A m \in 0..(n - 1) : Ball(d, l, {a}, m) # Ball(d, l, {a}, m + 1)

(* the diameter of the graph of layer l: the largest distance in edges   *)
(* between two ids joined by a path                                       *)
Diameter(d, l) ==
    CHOOSE n \in 0..Cardinality(LayerIds(d, l)) :
        /\ \A a \in LayerIds(d, l) : Eccentricity(d, l, a) <= n
        /\ \E a \in LayerIds(d, l) : Eccentricity(d, l, a) = n

Unique(i) == \A j \in Ids : get_point(db, j) = get_point(db, i) => j = i

Min(a, b) == IF a < b THEN a ELSE b

Searched == res # None

Out == res[1].out

----------------------------------------------------------------------------
(* C1: after any serialized sequence of completed inserts, on every layer *)
(* b is in the stored adjacency of a iff a is in the stored adjacency of  *)
(* b, also for the edges removed by pruning a neighbor's adjacency         *)
C1_Bidirectional ==
    ~failed =>
        \A k \in RecordKeys : \A b \in Adj(k[1], k[2]) :
            k[2] \in Adj(k[1], b)

(* pruning removed an edge of layer 0, and it is gone in both directions  *)
C1_Witness ==
    /\ ~failed
    /\ \E e \in Lost :
          /\ e[1] = 0
          /\ e[3] \notin Adj(0, e[2])
          /\ e[2] \notin Adj(0, e[3])

(* C2: after completed inserts every adjacency respects the cap: at most  *)
(* M on the layers above 0 and at most 2 * M on layer 0                    *)
C2_Cap ==
    ~failed =>
        \A k \in RecordKeys :
            Cardinality(Adj(k[1], k[2])) <= (IF k[1] = 0 THEN 2 * M ELSE M)

(* a node of layer 1 lost an edge to pruning and sits at its cap M        *)
C2_Witness ==
    /\ ~failed
    /\ \E e \in Lost : e[1] > 0 /\ Cardinality(Adj(e[1], e[2])) = M

(* C3: the entry point is a node of the top layer num_layers - 1, and the *)
(* last insert changed it only if its level exceeded the previous top      *)
C3_EntryPoint ==
    Completed =>
        /\ get_ep(db) # None
        /\ get_ep(db)[1] \in Ids
        /\ log[get_ep(db)[1] + 1].level = get_num_layers(db) - 1
        /\ HasRecord(get_num_layers(db) - 1, get_ep(db)[1])
        /\ get_ep(db) =
              (IF LastInsert.level > LastInsert.layers_before - 1
               THEN Some(LastInsert.id)
               ELSE LastInsert.ep_before)

(* an insert into a populated index drew a level above the top and became *)
(* the entry point                                                        *)
C3_Witness ==
    /\ Completed
    /\ Len(log) > 1
    /\ LastInsert.level > LastInsert.layers_before - 1
    /\ get_ep(db) = Some(LastInsert.id)
    /\ get_ep(db) # LastInsert.ep_before

(* C4: the k-th insert (from 0) returns id k and leaves datasize = k + 1, *)
(* so the ids are the contiguous range [0, datasize)                       *)
C4_DenseIds ==
    ~failed =>
        /\ get_datasize(db) = Len(log)
        /\ \A k \in 1..Len(log) : log[k].id = k - 1

C4_Witness ==
    /\ ~failed
    /\ get_datasize(db) = 3
    /\ log[3].id = 2

(* C5: every id below datasize reads back the vector passed to the insert *)
(* that returned it                                                       *)
C5_PointsKept ==
    ~failed =>
        \A i \in Ids :
            /\ ~get_point_throws(db, i)
            /\ get_point(db, i) = log[i + 1].point

(* three inserts later, id 0 still reads its own vector, not a later one  *)
C5_Witness ==
    /\ ~failed
    /\ get_datasize(db) > 3
    /\ get_point(db, 0) = log[1].point
    /\ \A i \in Ids \ {0} : get_point(db, i) # get_point(db, 0)

(* C6 as stated: a search returns exactly min(K, datasize) results and    *)
(* never fails                                                            *)
C6_ResultCount ==
    Searched =>
        /\ ~res[1].err
        /\ Len(Out) = Min(res[1].K, get_datasize(db))

(* C6 amended: a search never fails and returns at most min(K, datasize)  *)
(* results, exactly that many when every id is reachable from the entry   *)
(* point along layer-0 edges; the empty index gives the empty list        *)
C6_ResultCountConnected ==
    Searched =>
        /\ ~res[1].err
        /\ Len(Out) <= Min(res[1].K, get_datasize(db))
        /\ Layer0Connected => Len(Out) = Min(res[1].K, get_datasize(db))

(* K above ef_search on a larger connected index: the width was raised    *)
C6_Witness ==
    /\ Searched
    /\ res[1].K > ef_search
    /\ get_datasize(db) > res[1].K
    /\ Layer0Connected
    /\ Len(Out) = res[1].K

(* C7: the results are in ascending distance and no id occurs twice       *)
C7_SortedDistinct ==
    Searched =>
        /\ \A i \in 1..(Len(Out) - 1) : Out[i].distance <= Out[i + 1].distance
        /\ \A i, j \in 1..Len(Out) : Out[i].id = Out[j].id => i = j

C7_Witness ==
    /\ Searched
    /\ Len(Out) = 3
    /\ Out[1].distance < Out[2].distance
    /\ Out[2].distance < Out[3].distance

C9_OwnMetadata ==
    Searched =>
        \A i \in 1..Len(Out) : Out[i].metadata = log[Out[i].id + 1].metadata

(* one search returns two points inserted with different metadata        *)
C9_Witness ==
    /\ Searched
    /\ \E i, j \in 1..Len(Out) :
          /\ Out[i].metadata # None
          /\ Out[j].metadata # None
          /\ Out[i].metadata # Out[j].metadata

(* C10: every id with a record at layer l has a record at every layer     *)
(* below l, so every inserted id has a record at layer 0                   *)
C10_DownwardClosed ==
    ~failed =>
        /\ \A k \in RecordKeys : \A l \in 0..(k[1] - 1) : HasRecord(l, k[2])
        /\ \A i \in Ids : HasRecord(0, i)

(* an insert above the old top: its records at the new layer and below    *)
C10_Witness ==
    /\ Completed
    /\ Len(log) > 1
    /\ LastInsert.level > LastInsert.layers_before - 1
    /\ LastInsert.layers_before > 0
    /\ \A l \in 0..LastInsert.level : HasRecord(l, LastInsert.id)

(* C11: a completed insert of level l on an index of n layers leaves      *)
(* num_layers = max(n, l + 1): raised by the level delta, unchanged when   *)
(* l + 1 <= n                                                              *)
C11_LayerCount ==
    Completed =>
        get_num_layers(db) =
            (IF LastInsert.level + 1 > LastInsert.layers_before
             THEN LastInsert.level + 1
             ELSE LastInsert.layers_before)

(* an insert into a populated one-layer index drew level 1                *)
C11_Witness ==
    /\ Completed
    /\ LastInsert.layers_before = 1
    /\ LastInsert.level = 1
    /\ get_num_layers(db) = 2

(* C12: the index is Empty exactly when datasize = 0, and then ep is      *)
(* absent and num_layers = 0; otherwise it is Populated (ep present,       *)
(* num_layers >= 1).  Every step that changes the storage is an insert     *)
(* that raises datasize by exactly one, never lowers num_layers and leaves *)
(* ep present; no step returns the index to Empty                          *)
Empty(d) == get_datasize(d) = 0 /\ get_ep(d) = None /\ get_num_layers(d) = 0

Populated(d) == get_datasize(d) >= 1 /\ get_ep(d) # None /\ get_num_layers(d) >= 1

TwoStates(d) ==
    /\ Empty(d) \/ Populated(d)
    /\ Empty(d) <=> get_datasize(d) = 0

InsertStep(d, e) ==
    /\ e # d => get_datasize(e) = get_datasize(d) + 1
    /\ get_datasize(e) >= get_datasize(d)
    /\ get_num_layers(e) >= get_num_layers(d)
    /\ e # d \/ Populated(d) => Populated(e)

C12_TwoStates ==
    /\ [](~failed => TwoStates(db))
    /\ [][~failed' => InsertStep(db, db')]_vars

(* a populated index after a second insert and a search                   *)
C12_Witness ==
    /\ Completed
    /\ Len(log) >= 2
    /\ Searched
    /\ Populated(db)

C14_Connected == Completed => Layer0Connected

(* C14 amended: after completed inserts every id has a layer-0 record and *)
(* the entry point is a stored id; every id is reachable from it along the *)
(* layer-0 edges as long as no insert has pruned a layer-0 adjacency,      *)
(* which takes more than 2 * M + 1 points                                  *)
C14_ConnectedUnpruned ==
    Completed =>
        /\ get_ep(db) # None
        /\ get_ep(db)[1] \in Ids
        /\ \A i \in Ids : HasRecord(0, i)
        /\ (\A e \in Lost : e[1] # 0) => Layer0Connected
        /\ get_datasize(db) <= 2 * M + 1 => Layer0Connected

(* 2 * M + 1 points, one of them not adjacent to the entry point          *)
C14_Witness ==
    /\ Completed
    /\ get_datasize(db) = 2 * M + 1
    /\ Layer0Connected
    /\ \E i \in Ids : i # get_ep(db)[1] /\ i \notin Adj(0, get_ep(db)[1])

(* C15: new_point calls that interleave race on the datasize counter: two *)
(* calls that read the same datasize d both return d, the later point      *)
(* write is the one stored, and the counter ends at the id last returned   *)
(* plus one; when the calls are serialized the ids are distinct, datasize  *)
(* is the number of calls and every point is stored                        *)
Returns == {k \in 1..Len(log) : log[k].op = "return"}

PointWrites == {k \in 1..Len(log) : log[k].op = "set_point"}

Quiescent == \A p \in Procs : ~InFlight(p)

Serialized == \A k \in Returns : log[k].alone

C15_CounterRace ==
    /\ \A k \in PointWrites :
          (\A j \in PointWrites : j > k => log[j].id # log[k].id) =>
              get_point(db, log[k].id) = log[k].point
    /\ (Quiescent /\ Returns # {}) =>
          get_datasize(db) = log[Len(log)].id + 1
    /\ (Quiescent /\ Serialized) =>
          /\ get_datasize(db) = Cardinality(Returns)
          /\ \A j, k \in Returns : log[j].id = log[k].id => j = k
          /\ \A k \in Returns : get_point(db, log[k].id) = log[k].point

(* after one call alone, two calls read datasize 1: both return 1, the    *)
(* first vector written under id 1 is overwritten, datasize is 2, not 3    *)
C15_Witness ==
    /\ Quiescent
    /\ Cardinality(Returns) = 3
    /\ get_datasize(db) = 2
    /\ \E j, k \in Returns :
          /\ j < k
          /\ log[j].proc # log[k].proc
          /\ log[j].id = 1
          /\ log[k].id = 1
          /\ log[j].point # log[k].point
          /\ \E w \in PointWrites :
                /\ log[w].id = 1
                /\ log[w].point # get_point(db, 1)

(* C17 as stated: after an insert stopped at any prefix of its writes the *)
(* writes made remain, on every layer the adjacency of the new id holds    *)
(* only ids of stored points with a record on that layer, and a following  *)
(* knn_search completes without error                                      *)
Abandoned == calls # <<>>

PartialValid ==
    /\ db = calls[1].left
    /\ \A k \in RecordKeys :
          k[2] = calls[1].id =>
              \A j \in Adj(k[1], k[2]) :
                  j \in DOMAIN db.point /\ HasRecord(k[1], j)

C17_PartialInsert ==
    Abandoned =>
        /\ PartialValid
        /\ Searched => ~res[1].err

(* C16 as stated: a knn_search whose reads interleave with the writes of  *)
(* one insert in progress completes without error and returns only ids of  *)
(* stored points, no id twice, in ascending distance                       *)
C16_SearchDuringInsert ==
    (Searched /\ calls.started) =>
        /\ ~res[1].err
        /\ \A i \in 1..Len(Out) : Out[i].id \in DOMAIN db.point
        /\ \A i, j \in 1..Len(Out) : Out[i].id = Out[j].id => i = j
        /\ \A i \in 1..(Len(Out) - 1) : Out[i].distance <= Out[i + 1].distance

(* C18 as stated: the distance of two vectors of unequal length is never  *)
(* a value, whichever is the longer, and no insert of a vector whose       *)
(* length differs from the stored vectors completes and returns an id      *)
C18_DimensionMismatch ==
    /\ \A k \in DOMAIN calls :
          Len(calls[k].a) # Len(calls[k].b) =>
              calls[k].out.kind \notin {"number", "NaN"}
    /\ ~failed =>
          \A j, k \in 1..Len(log) : Len(log[j].point) = Len(log[k].point)

(* C19: new_neighbor(idx) on a store of n layers writes an empty record   *)
(* for idx at layer n, which held no record, sets num_layers to n + 1 and  *)
(* changes no other record or counter; get_neighbor(n, idx) then succeeds  *)
(* and returns the empty map                                               *)
LastCall == calls[1]

CalledOp(op) == calls # <<>> /\ LastCall.op = op

C19_NewNeighbor ==
    CalledOp("new_neighbor") =>
        /\ LastCall.layer = get_num_layers(LastCall.before)
        /\ \A k \in DOMAIN LastCall.before.neighbor : k[1] < LastCall.layer
        /\ get_num_layers(db) = LastCall.layer + 1
        /\ ~get_neighbor_throws(db, LastCall.layer, LastCall.idxs[1])
        /\ DOMAIN get_neighbor(db, LastCall.layer, LastCall.idxs[1]) = {}
        /\ DOMAIN db.neighbor =
              DOMAIN LastCall.before.neighbor
              \cup {<<LastCall.layer, LastCall.idxs[1]>>}
        /\ \A k \in DOMAIN LastCall.before.neighbor :
              db.neighbor[k] = LastCall.before.neighbor[k]
        /\ db.point = LastCall.before.point
        /\ db.metadata = LastCall.before.metadata
        /\ db.ep = LastCall.before.ep
        /\ db.points = LastCall.before.points

(* called for id 0 on a two-layer index whose records hold edges          *)
C19_Witness ==
    /\ CalledOp("new_neighbor")
    /\ LastCall.layer = 2
    /\ ~get_neighbor_throws(db, 2, 0)
    /\ LastCall.idxs[1] = 0
    /\ get_datasize(db) = 2
    /\ \E k \in DOMAIN db.neighbor : DOMAIN db.neighbor[k].neighbors # {}

(* C20 as stated: a storage read fails exactly when a requested key was   *)
(* never written; a batched read that does not fail returns one value per  *)
(* requested id, matched to the ids; a read changes no stored state        *)
UnknownPoint(idxs) ==
    \E i \in 1..Len(idxs) : idxs[i] \notin DOMAIN db.point

UnknownRecord(layer, idxs) ==
    \E i \in 1..Len(idxs) : <<layer, idxs[i]>> \notin DOMAIN db.neighbor

C20_ReadFailures ==
    /\ (calls # <<>> /\ LastCall.op # "new_neighbor") => db = LastCall.before
    /\ CalledOp("get_point") =>
          /\ LastCall.threw <=> UnknownPoint(LastCall.idxs)
          /\ ~LastCall.threw => LastCall.out = db.point[LastCall.idxs[1]].v
    /\ CalledOp("get_points") =>
          /\ LastCall.threw <=> UnknownPoint(LastCall.idxs)
          /\ ~LastCall.threw =>
                /\ Len(LastCall.out) = Len(LastCall.idxs)
                /\ \A i \in 1..Len(LastCall.idxs) :
                      LastCall.out[i] = db.point[LastCall.idxs[i]].v
    /\ CalledOp("get_neighbor") =>
          /\ LastCall.threw <=> UnknownRecord(LastCall.layer, LastCall.idxs)
          /\ ~LastCall.threw =>
                LastCall.out =
                    db.neighbor[<<LastCall.layer, LastCall.idxs[1]>>].neighbors
    /\ CalledOp("get_neighbors") =>
          /\ LastCall.threw <=> UnknownRecord(LastCall.layer, LastCall.idxs)
          /\ ~LastCall.threw =>
                /\ DOMAIN LastCall.out =
                      {LastCall.idxs[i] : i \in 1..Len(LastCall.idxs)}
                /\ \A i \in 1..Len(LastCall.idxs) :
                      LastCall.out[LastCall.idxs[i]] =
                          db.neighbor[<<LastCall.layer,
                                        LastCall.idxs[i]>>].neighbors

(* C21: upsert_neighbor and upsert_neighbors replace adjacency: every id  *)
(* named in the call reads back exactly the map written, so neighbors it  *)
(* had before and the new map lacks are gone; records of other ids and     *)
(* layers, the points, the metadata and the counters are unchanged; the    *)
(* batched call leaves the storage its batch write alone leaves            *)
Named == {<<LastCall.layer, i>> : i \in DOMAIN LastCall.nodes}

Replaced ==
    /\ \A i \in DOMAIN LastCall.nodes :
          /\ ~get_neighbor_throws(db, LastCall.layer, i)
          /\ get_neighbor(db, LastCall.layer, i) = LastCall.nodes[i]
    /\ DOMAIN db.neighbor = DOMAIN LastCall.before.neighbor \cup Named
    /\ \A k \in DOMAIN LastCall.before.neighbor \ Named :
          db.neighbor[k] = LastCall.before.neighbor[k]
    /\ [db EXCEPT !.neighbor = EmptyFn] =
          [LastCall.before EXCEPT !.neighbor = EmptyFn]

C21_UpsertReplaces ==
    /\ CalledOp("upsert_neighbor") => Replaced
    /\ CalledOp("upsert_neighbors") =>
          /\ db = LastCall.mset
          /\ IF LastCall.threw THEN db = LastCall.before ELSE Replaced

(* a batch on a layer where a named id had a neighbor the new map lacks   *)
(* and another id of that layer, not named, keeps its neighbors            *)
C21_Witness ==
    /\ CalledOp("upsert_neighbors")
    /\ ~LastCall.threw
    /\ \E i \in DOMAIN LastCall.nodes :
          /\ <<LastCall.layer, i>> \in DOMAIN LastCall.before.neighbor
          /\ \E b \in DOMAIN LastCall.before.neighbor[<<LastCall.layer, i>>].neighbors :
                b \notin DOMAIN get_neighbor(db, LastCall.layer, i)
    /\ \E k \in DOMAIN LastCall.before.neighbor \ Named :
          k[1] = LastCall.layer /\ DOMAIN db.neighbor[k].neighbors # {}

(* C22: search_layer returns at most ef entries with pairwise distinct    *)
(* ids, each a node visited in the traversal carrying its distance to q;   *)
(* no visited node left out is strictly closer to q than a node returned   *)
SearchedLayer == CalledOp("search_layer") /\ ~LastCall.out.err

Descended == CalledOp("descent")

Selected == CalledOp("select_neighbors")

Between(e, r) == cosine_distance(get_point(db, e[2]), get_point(db, r[2]))

C24_SelectNeighbors ==
    Selected =>
        /\ LastCall.out \subseteq LastCall.C
        /\ Cardinality(LastCall.out) <= LastCall.m
        /\ LastCall.C # {} =>
              \E e \in LastCall.out : \A c \in LastCall.C : e[1] <= c[1]
        /\ \A e, r \in LastCall.out :
              (e # r /\ r[1] <= e[1]) => e[1] < Between(e, r)
        /\ \A e \in LastCall.C \ LastCall.out :
              \/ \E r \in LastCall.out : r[1] <= e[1] /\ e[1] >= Between(e, r)
              \/ /\ Cardinality(LastCall.out) = LastCall.m
                 /\ \A r \in LastCall.out : r[1] <= e[1]

(* of three candidates one is left out although R is not full: it is not  *)
(* closer to q than to a node selected before it                           *)
C24_Witness ==
    /\ Selected
    /\ Cardinality(LastCall.C) = 3
    /\ Cardinality(LastCall.out) = 2
    /\ LastCall.m > 2
    /\ \E e \in LastCall.C \ LastCall.out :
          \E r \in LastCall.out : r[1] < e[1] /\ e[1] >= Between(e, r)

(* C25 as stated: the top of the heap is a node of minimum distance, the  *)
(* pops come out in ascending distance, and the order in which the nodes   *)
(* come out, nodes of equal distance included, is fixed by the nodes       *)
(* pushed (ascending id among equal distances), whatever the push order    *)
Orders(s) ==
    {p \in [DOMAIN s -> DOMAIN s] : \A i, j \in DOMAIN s : p[i] = p[j] => i = j}

TopIsMin ==
    \A k \in DOMAIN calls.heap : calls.heap[1][1] <= calls.heap[k][1]

PopsAscend ==
    \A k \in 1..(Len(calls.popped) - 1) :
        calls.popped[k][1] <= calls.popped[k + 1][1]

C25_HeapOrder ==
    /\ TopIsMin
    /\ PopsAscend
    /\ \A p \in Orders(calls.pushed) :
          Pops(NodeHeap([i \in DOMAIN calls.pushed |-> calls.pushed[p[i]]]))
              = Pops(NodeHeap(calls.pushed))
    /\ \A k \in 1..(Len(calls.popped) - 1) :
          calls.popped[k][1] = calls.popped[k + 1][1] =>
              calls.popped[k][2] < calls.popped[k + 1][2]

(* C26: new_neighbor calls that interleave race on the num_layers         *)
(* counter: every call writes its record at the layer it read and leaves   *)
(* the counter at that layer plus one, so two calls that read the same n   *)
(* both write at layer n and num_layers ends at n + 1; when the calls are  *)
(* serialized each call writes at a layer of its own and num_layers is the *)
(* number of calls                                                         *)
C26_LayerRace ==
    /\ \A k \in Returns : HasRecord(log[k].layer, log[k].idx)
    /\ (Quiescent /\ Returns # {}) =>
          get_num_layers(db) = log[Len(log)].layer + 1
    /\ (Quiescent /\ Serialized) =>
          /\ get_num_layers(db) = Cardinality(Returns)
          /\ \A j, k \in Returns : log[j].layer = log[k].layer => j = k
          /\ \A l \in 0..(get_num_layers(db) - 1) :
                \E k \in Returns : log[k].layer = l

(* after one call alone, two calls for different ids read num_layers 1:   *)
(* both records are at layer 1 and num_layers is 2, not 3                  *)
C26_Witness ==
    /\ Quiescent
    /\ Cardinality(Returns) = 3
    /\ get_num_layers(db) = 2
    /\ \E j, k \in Returns :
          /\ j < k
          /\ log[j].proc # log[k].proc
          /\ log[j].layer = 1
          /\ log[k].layer = 1
          /\ log[j].idx # log[k].idx
          /\ HasRecord(1, log[j].idx)
          /\ HasRecord(1, log[k].idx)

(* C27: setMany(keys, values) with lists of different lengths throws and  *)
(* issues no interaction; with equal lengths it does not throw and issues  *)
(* exactly one interaction, upsertVectorMulti with all the keys and all    *)
(* the values; set(key, value) issues what setMany([key], [value]) issues  *)
SdkLast == calls.last[1]

Upsert(keys, values) ==
    [function |-> "upsertVectorMulti",
     value |-> [keys |-> keys, values |-> values]]

C27_SetMany ==
    calls.last # None =>
        IF Len(SdkLast.keys) # Len(SdkLast.values)
        THEN SdkLast.threw /\ calls.sent = SdkLast.before
        ELSE /\ ~SdkLast.threw
             /\ Len(calls.sent) = Len(SdkLast.before) + 1
             /\ SubSeq(calls.sent, 1, Len(SdkLast.before)) = SdkLast.before
             /\ calls.sent[Len(calls.sent)] =
                   Upsert(SdkLast.keys, SdkLast.values)

(* a setMany with two keys and one value after a set that went through:   *)
(* it threw and the one interaction of the set is all that was issued      *)
C27_Witness ==
    /\ calls.last # None
    /\ SdkLast.op = "setMany"
    /\ Len(SdkLast.keys) = 2
    /\ Len(SdkLast.values) = 1
    /\ SdkLast.threw
    /\ calls.sent = <<Upsert(<<"a">>, <<"x">>)>>

(* C28: after any serialized sequence of completed inserts every neighbor *)
(* b stored for an id a at a layer l is an id below datasize with a stored *)
(* point and an adjacency record at layer l; no insert fails, and no       *)
(* knn_search on such an index fails on a missing point or record          *)
Closed ==
    \A k \in RecordKeys :
        /\ k[2] \in Ids
        /\ \A b \in Adj(k[1], k[2]) :
              /\ b < get_datasize(db)
              /\ ~get_point_throws(db, b)
              /\ ~get_neighbor_throws(db, k[1], b)

C28_Closed ==
    /\ ~failed
    /\ Closed
    /\ Searched => ~res[1].err

(* a search that went through on an index an insert pruned an adjacency   *)
(* of                                                                      *)
C28_Witness ==
    /\ Completed
    /\ Closed
    /\ Lost # {}
    /\ Searched
    /\ ~res[1].err
    /\ Len(Out) = res[1].K

(* C29: after any serialized sequence of completed inserts no id is a key *)
(* of its own adjacency on any layer, neither the new id after it was      *)
(* linked nor a neighbor whose adjacency was pruned                        *)
C29_NoSelfNeighbor ==
    ~failed => \A k \in RecordKeys : k[2] \notin Adj(k[1], k[2])

(* the last insert linked the new id to two nodes and pruned one of them: *)
(* neither the new id nor the pruned node is its own neighbor              *)
C29_Witness ==
    /\ Completed
    /\ Cardinality(Adj(0, LastInsert.id)) >= 2
    /\ \E e \in LastInsert.lost :
          /\ e[2] \in Adj(e[1], LastInsert.id)
          /\ e[2] \notin Adj(e[1], e[2])
    /\ \A l \in 0..LastInsert.level : LastInsert.id \notin Adj(l, LastInsert.id)

(* C30: new_point writes the point before the datasize counter: in every  *)
(* state of a single writer, also after a call stopped between its two     *)
(* writes, every id below datasize has a stored point and the only other   *)
(* stored point is an orphan at id datasize; the next call that returns    *)
(* gets that same id and its vector replaces the orphan; the vectors of    *)
(* the returned ids are the ones stored                                    *)
Abandons == {k \in 1..Len(log) : log[k].op = "abandon"}

C30_PointBeforeCounter ==
    /\ \A i \in 0..(get_datasize(db) - 1) : ~get_point_throws(db, i)
    /\ DOMAIN db.point \subseteq 0..get_datasize(db)
    /\ \A k \in Returns :
          /\ log[k].id = Cardinality({j \in Returns : j < k})
          /\ get_point(db, log[k].id) = log[k].point
    /\ \A k \in Abandons :
          /\ log[k].id = Cardinality({j \in Returns : j < k})
          /\ \A j \in Returns :
                (j > k /\ \A i \in Returns : i > k => i >= j) =>
                    log[j].id = log[k].id

(* a call was abandoned after writing its point; the retry with another   *)
(* vector returned the same id and its vector is the one stored            *)
C30_Witness ==
    /\ ~InFlight(Writer)
    /\ get_datasize(db) = 2
    /\ \E k \in Abandons : \E j \in Returns :
          /\ j > k
          /\ log[k].id = 1
          /\ log[j].id = 1
          /\ log[j].point # log[k].point
          /\ get_point(db, 1) = log[j].point

====
